---- MODULE Spec2Model ----
(***************************************************************************)
(* Zap: per-file streaming pipeline (sign -> compress -> encrypt), the     *)
(* extension codec that records the algorithm choice in file-name          *)
(* suffixes, and the directory orchestrator that fans jobs out over a      *)
(* worker pool.                                                            *)
(*                                                                         *)
(* Strings are sequences of symbols.  "." is the separator symbol; every   *)
(* suffix tag ("xcha", "aes", "cha", "lz4", "gz", "sz") is one symbol that *)
(* stands for that run of letters; "a" is an ordinary letter and "xFF" a   *)
(* byte that is not valid UTF-8.                                           *)
(***************************************************************************)
EXTENDS Integers, Sequences, FiniteSets, TLC

VARIABLES
    \* ---- extension codec run (src/src/lib.rs:28-121)
    in_path,      \* relative path handed to the codec
    c_enc,        \* EncryptionType of the run
    c_comp,       \* CompressionType of the run
    c_pc,         \* "start" | "encoded" | "decoded" | "scanned"
    encoded,      \* result of rewrite_ext
    decoded,      \* result of clear_ext
    types,        \* result of get_types_from_extensions
    \* ---- file system and per-file pipelines (src/src/pipeline/mod.rs)
    fs,           \* existing regular files: full path -> bytes
    dirs,         \* existing directories
    pl,           \* pipeline instances: job id -> configuration and position
    \* ---- directory operation (src/src/lib.rs:123-325)
    d_op,         \* the call: direction, roots, algorithm types, secret
    d_pc,         \* "plan" | "mkdirs" | "pipelines" | "returned" | "panicked"
    input_paths,  \* the walked regular files, in walk order
    jobs,         \* the zipped (input, output) pairs
    made,         \* jobs whose destination parent has been created
    \* ---- symbolic links of the file system and the command line of Extract
    links,        \* symbolic links: full path -> kind and target
    cli,          \* Command::Extract: archive name, override flags, result
    \* ---- builder run (src/src/pipeline/mod.rs:23-162)
    builder,      \* ProcessingPipelineBuilder: fields, values given, result
    \* ---- one PipelineTask run over any stream (pipeline/mod.rs:239-375)
    task          \* direction, stream behaviour, position, results

codecVars == <<in_path, c_enc, c_comp, c_pc, encoded, decoded, types>>

pipeVars == <<fs, dirs, pl>>

orchVars == <<d_op, d_pc, input_paths, jobs, made>>

extVars == <<links, cli, builder, task>>

vars == <<in_path, c_enc, c_comp, c_pc, encoded, decoded, types, fs, dirs, pl,
          d_op, d_pc, input_paths, jobs, made, links, cli, builder, task>>

----------------------------------------------------------------------------
\* Bounds

MaxTokens == 3

MaxFileLen == 2

MaxFiles == 2

NWorkers == 2

----------------------------------------------------------------------------
\* Algorithm variants

EncryptionTypes == {"Passthrough", "XChaCha", "AesGcm", "ChaCha"}

CompressionTypes == {"Passthrough", "Lz4", "Gzip", "Snappy"}

----------------------------------------------------------------------------
\* Strings and paths

DOT == "."

EncTagSyms == {"xcha", "aes", "cha"}

CompTagSyms == {"lz4", "gz", "sz"}

\* the literal array of clear_ext's retain closure
KnownTags == {<<"xcha">>, <<"aes">>, <<"cha">>, <<"lz4">>, <<"gz">>, <<"sz">>}

\* OsStr::to_str: None when the bytes are not valid UTF-8
IsUtf8(s) == \A i \in 1..Len(s) : s[i] # "xFF"

Rev(s) == [i \in 1..Len(s) |-> s[Len(s) + 1 - i]]

HasDot(s) == \E i \in 1..Len(s) : s[i] = DOT

FirstDot(s) == CHOOSE k \in 1..Len(s) : s[k] = DOT /\ \A j \in 1..(k - 1) : s[j] # DOT

LastDot(s) == CHOOSE k \in 1..Len(s) : s[k] = DOT /\ \A j \in (k + 1)..Len(s) : s[j] # DOT

\* str::split('.'): the tokens between separators, always at least one
RECURSIVE Split(_)
Split(s) ==
    IF ~HasDot(s) THEN <<s>>
    ELSE <<SubSeq(s, 1, FirstDot(s) - 1)>> \o Split(SubSeq(s, FirstDot(s) + 1, Len(s)))

\* [&str]::join("."): the empty vector joins to the empty string
RECURSIVE JoinDot(_)
JoinDot(ts) ==
    IF ts = <<>> THEN <<>>
    ELSE IF Len(ts) = 1 THEN ts[1]
    ELSE ts[1] \o <<DOT>> \o JoinDot(Tail(ts))

\* str::trim_start_matches('.')
RECURSIVE trim_start_matches(_)
trim_start_matches(s) ==
    IF s # <<>> /\ Head(s) = DOT THEN trim_start_matches(Tail(s)) ELSE s

\* A relative path: its parent directories and its file name.
MkPath(d, n) == [dir |-> d, name |-> n]

NoPath == MkPath(<<>>, <<>>)

NoOp == [kind |-> "none"]

NoLinks == <<>>

NoCli == [pc |-> "off"]

NoBuilder == [pc |-> "off"]

NoTask == [pc |-> "off"]

None == [some |-> FALSE, val |-> <<>>]

Some(v) == [some |-> TRUE, val |-> v]

\* Path::file_stem / Path::extension (std rsplit_file_at_dot): no extension
\* without an embedded ".", nor when the only "." is the leading one.
PathExtension(p) ==
    LET f == p.name IN
    IF f = <<>> \/ f = <<DOT, DOT>> \/ ~HasDot(f) THEN None
    ELSE IF SubSeq(f, 1, LastDot(f) - 1) = <<>> THEN None
    ELSE Some(SubSeq(f, LastDot(f) + 1, Len(f)))

PathFileStem(p) ==
    LET f == p.name IN
    IF PathExtension(p).some THEN SubSeq(f, 1, LastDot(f) - 1) ELSE f

\* Path::with_extension: truncate to the stem, then push "." and the new
\* extension unless it is empty; a path without a file name is unchanged.
PathWithExtension(p, ext) ==
    IF p.name = <<>> THEN p
    ELSE IF ext = <<>> THEN MkPath(p.dir, PathFileStem(p))
    ELSE MkPath(p.dir, PathFileStem(p) \o <<DOT>> \o ext)

Ok(p) == [status |-> "ok", path |-> p]

Err(kind) == [status |-> kind, path |-> NoPath]

----------------------------------------------------------------------------
\* Extension codec

EncTag(enc) ==
    CASE enc = "Passthrough" -> <<>>
      [] enc = "XChaCha" -> <<DOT, "xcha">>
      [] enc = "AesGcm" -> <<DOT, "aes">>
      [] enc = "ChaCha" -> <<DOT, "cha">>

CompTag(comp) ==
    CASE comp = "Passthrough" -> <<>>
      [] comp = "Lz4" -> <<DOT, "lz4">>
      [] comp = "Gzip" -> <<DOT, "gz">>
      [] comp = "Snappy" -> <<DOT, "sz">>

build_common_extension(enc, comp) == EncTag(enc) \o CompTag(comp)

rewrite_ext(path, extension) ==
    LET ext == PathExtension(path) IN
    IF ext.some
    THEN IF ~IsUtf8(ext.val)
         THEN Err("TypeConversionError")
         ELSE Ok(PathWithExtension(path, ext.val \o extension))
    ELSE Ok(PathWithExtension(path, trim_start_matches(extension)))

\* the retain closure of clear_ext: keep a token unless it is a known tag
RetainToken(tok) == tok \notin KnownTags

\* clear_ext leaving a separator after a name that has one token left
clear_ext_trailing_separator(path) ==
    IF path.name = <<>> THEN Err("FileNameError")
    ELSE IF ~IsUtf8(path.name) THEN Err("panic")
    ELSE LET input_file_extensions == Rev(Split(path.name))
             kept == Rev(SelectSeq(input_file_extensions, RetainToken))
         IN Ok(MkPath(path.dir, IF Len(kept) = 1 THEN kept[1] \o <<DOT>> ELSE JoinDot(kept)))

clear_ext(path) ==
    IF path.name = <<>> THEN Err("FileNameError")
    ELSE IF ~IsUtf8(path.name) THEN Err("panic")
    ELSE LET input_file_extensions == Rev(Split(path.name))
             kept == Rev(SelectSeq(input_file_extensions, RetainToken))
         IN Ok(MkPath(path.dir, JoinDot(kept)))

\* ClassifyToken with the "cha" arm selecting XChaCha
ClassifyTokenChaArm(tok, acc) ==
    CASE tok = <<"xcha">> -> [acc EXCEPT !.enc = "XChaCha"]
      [] tok = <<"aes">> -> [acc EXCEPT !.enc = "AesGcm"]
      [] tok = <<"cha">> -> [acc EXCEPT !.enc = "XChaCha"]
      [] tok = <<"lz4">> -> [acc EXCEPT !.comp = "Lz4"]
      [] tok = <<"gz">> -> [acc EXCEPT !.comp = "Gzip"]
      [] tok = <<"sz">> -> [acc EXCEPT !.comp = "Snappy"]
      [] OTHER -> acc

\* one arm of the match in get_types_from_extensions
ClassifyToken(tok, acc) ==
    CASE tok = <<"xcha">> -> [acc EXCEPT !.enc = "XChaCha"]
      [] tok = <<"aes">> -> [acc EXCEPT !.enc = "AesGcm"]
      [] tok = <<"cha">> -> [acc EXCEPT !.enc = "ChaCha"]
      [] tok = <<"lz4">> -> [acc EXCEPT !.comp = "Lz4"]
      [] tok = <<"gz">> -> [acc EXCEPT !.comp = "Gzip"]
      [] tok = <<"sz">> -> [acc EXCEPT !.comp = "Snappy"]
      [] OTHER -> acc

\* the for loop of get_types_from_extensions over the reversed tokens
RECURSIVE ScanTypes(_, _)
ScanTypes(tokens, acc) ==
    IF tokens = <<>> THEN acc
    ELSE ScanTypes(Tail(tokens), ClassifyToken(Head(tokens), acc))

NoTypes == [status |-> "none", enc |-> "Passthrough", comp |-> "Passthrough"]

get_types_from_extensions(path) ==
    IF path.name = <<>> THEN [NoTypes EXCEPT !.status = "FileNameError"]
    ELSE IF ~IsUtf8(path.name) THEN [NoTypes EXCEPT !.status = "panic"]
    ELSE ScanTypes(Rev(Split(path.name)), [NoTypes EXCEPT !.status = "ok"])

----------------------------------------------------------------------------
\* Inputs of the codec runs

Tokens == {<<>>, <<"a">>, <<"xFF">>} \cup KnownTags

TokenSeqs == UNION {[1..n -> Tokens] : n \in 1..MaxTokens}

\* file names a directory walk can yield: not empty, not "." and not ".."
FileNames == {JoinDot(ts) : ts \in TokenSeqs} \ {<<>>, <<DOT>>, <<DOT, DOT>>}

DirNames == {<<>>, <<"sub">>}

----------------------------------------------------------------------------
\* Codec runs: encode a relative path and decode the result (compress then
\* extract), or decode a file name as it is found in an unpacked archive.

InitCodec ==
    /\ in_path \in {MkPath(d, n) : d \in DirNames, n \in FileNames}
    /\ c_enc \in EncryptionTypes
    /\ c_comp \in CompressionTypes
    /\ c_pc = "start"
    /\ encoded = Err("none")
    /\ decoded = Err("none")
    /\ types = NoTypes
    /\ fs = <<>>
    /\ dirs = {}
    /\ pl = <<>>
    /\ d_op = NoOp /\ d_pc = "off" /\ input_paths = <<>> /\ jobs = <<>> /\ made = {}
    /\ links = NoLinks /\ cli = NoCli /\ builder = NoBuilder /\ task = NoTask

Encode ==
    /\ c_pc = "start"
    /\ encoded' = rewrite_ext(in_path, build_common_extension(c_enc, c_comp))
    /\ c_pc' = "encoded"
    /\ UNCHANGED <<extVars, in_path, c_enc, c_comp, decoded, types, pipeVars, orchVars>>

Decode ==
    /\ c_pc = "encoded"
    /\ encoded.status = "ok"
    /\ decoded' = clear_ext(encoded.path)
    /\ types' = get_types_from_extensions(encoded.path)
    /\ c_pc' = "decoded"
    /\ UNCHANGED <<extVars, in_path, c_enc, c_comp, encoded, pipeVars, orchVars>>

Scan ==
    /\ c_pc = "start"
    /\ decoded' = clear_ext(in_path)
    /\ types' = get_types_from_extensions(in_path)
    /\ c_pc' = "scanned"
    /\ UNCHANGED <<extVars, in_path, c_enc, c_comp, encoded, pipeVars, orchVars>>

NextCodec == Encode \/ Decode \/ Scan

SpecCodec == InitCodec /\ [][NextCodec]_vars

----------------------------------------------------------------------------
\* Algorithm modules.  Their sources are not part of this model's input; they
\* are modelled from their contract: an encryptor turns the bytes written to
\* it into a header that names cipher and key followed by the masked bytes,
\* and the decryptor accepts exactly that; a compressor emits a magic number
\* followed by the payload, and the decompressor accepts exactly that.

Bytes == {0, 1}

Contents == UNION {[1..n -> Bytes] : n \in 0..MaxFileLen}

CipherId(enc) ==
    CASE enc = "XChaCha" -> 1
      [] enc = "AesGcm" -> 2
      [] enc = "ChaCha" -> 3

KeyId(key) == IF key = "pw" THEN 1 ELSE 2

CodecId(comp) ==
    CASE comp = "Lz4" -> 1
      [] comp = "Gzip" -> 2
      [] comp = "Snappy" -> 3

CipherHeader(enc, key) == 100 + 10 * CipherId(enc) + KeyId(key)

CipherMask(enc, key) == 1000 * (10 * CipherId(enc) + KeyId(key))

Encrypt(enc, key, data) ==
    <<CipherHeader(enc, key)>> \o [i \in 1..Len(data) |-> data[i] + CipherMask(enc, key)]

Decrypt(enc, key, data) ==
    IF /\ Len(data) >= 1
       /\ data[1] = CipherHeader(enc, key)
       /\ \A i \in 2..Len(data) : data[i] >= CipherMask(enc, key)
    THEN [ok |-> TRUE, data |-> [i \in 1..(Len(data) - 1) |-> data[i + 1] - CipherMask(enc, key)]]
    ELSE [ok |-> FALSE, data |-> <<>>]

CodecMagic(comp) == 20 + CodecId(comp)

Compress(comp, data) == <<CodecMagic(comp)>> \o data

Decompress(comp, data) ==
    IF Len(data) >= 1 /\ data[1] = CodecMagic(comp)
    THEN [ok |-> TRUE, data |-> Tail(data)]
    ELSE [ok |-> FALSE, data |-> <<>>]

\* One stream wrapper of a pipeline.
Layer(kind, alg, key) == [kind |-> kind, alg |-> alg, key |-> key]

\* what a writer layer hands to the writer it wraps
LayerWrite(layer, data) ==
    CASE layer.kind = "encryptor" ->
            IF layer.alg = "Passthrough" THEN data ELSE Encrypt(layer.alg, layer.key, data)
      [] layer.kind = "compressor" ->
            IF layer.alg = "Passthrough" THEN data ELSE Compress(layer.alg, data)
      [] layer.kind = "signer" -> data

\* what a reader layer yields from the bytes of the reader it wraps
LayerRead(layer, data) ==
    CASE layer.kind = "decryptor" ->
            IF layer.alg = "Passthrough" THEN [ok |-> TRUE, data |-> data]
            ELSE Decrypt(layer.alg, layer.key, data)
      [] layer.kind = "decompressor" ->
            IF layer.alg = "Passthrough" THEN [ok |-> TRUE, data |-> data]
            ELSE Decompress(layer.alg, data)
      [] layer.kind = "verifier" -> [ok |-> TRUE, data |-> data]

\* A stack lists the wrappers from the innermost (built first, around the
\* file) to the outermost.  Bytes written to the outermost writer reach the
\* file through every layer below it.
RECURSIVE WriteThrough(_, _)
WriteThrough(stack, data) ==
    IF stack = <<>> THEN data
    ELSE WriteThrough(SubSeq(stack, 1, Len(stack) - 1), LayerWrite(stack[Len(stack)], data))

\* Bytes read from the outermost reader come from the file through every
\* layer, innermost first; a failing layer fails the read.
RECURSIVE ReadThrough(_, _)
ReadThrough(stack, res) ==
    IF stack = <<>> \/ ~res.ok THEN res
    ELSE ReadThrough(Tail(stack), LayerRead(Head(stack), res.data))

LayerKinds(stack) == [i \in 1..Len(stack) |-> stack[i].kind]

----------------------------------------------------------------------------
\* File system

FPath(root, p) == [root |-> root, dir |-> p.dir, name |-> p.name]

DirOf(f) == [root |-> f.root, dir |-> f.dir]

\* A symbolic link names its target; "file" targets are regular files,
\* "dir" targets directories, "dangling" targets nothing.
SymLink(kind, target) == [kind |-> kind, target |-> target]

\* path resolution of fs::metadata / File::open: a symbolic link is followed
Resolve(f) == IF f \in DOMAIN links THEN links[f].target ELSE f

\* File::open succeeds on a regular file, reached through links or not
Exists(f) == Resolve(f) \in DOMAIN fs

\* Path::is_file: fs::metadata follows symbolic links
is_file(f) == Resolve(f) \in DOMAIN fs

\* the bytes File::open(f) reads
ReadFile(f) == fs[Resolve(f)]

\* File::create succeeds when the parent directory exists and the path names
\* a file; it truncates an existing file.
CanCreate(f) == DirOf(f) \in dirs /\ f.name # <<>>

\* io::copy into a freshly created handle: the write starts at offset 0 and
\* replaces what is there; bytes beyond it stay.
WriteAt0(old, data) ==
    IF Len(data) >= Len(old) THEN data
    ELSE data \o SubSeq(old, Len(data) + 1, Len(old))

----------------------------------------------------------------------------
\* Processing pipeline (src/src/pipeline/mod.rs)

SecretNone == [kind |-> "None", val |-> "none"]

SecretPassword(pw) == [kind |-> "Password", val |-> pw]

SecretKey(path) == [kind |-> "Key", val |-> path]

Secrets == {SecretNone, SecretPassword("pw"), SecretKey("keyfile")}

\* ProcessingPipelineBuilder ... build(): the pipeline with its seven fields
\* (the compression level only tunes gzip's encoder and is not modelled),
\* about to run `entry`.
ProcessingPipeline(enc, secret, comp, signing, source, destination, entry) ==
    [encryption |-> enc, encryption_secret |-> secret, compression |-> comp,
     signing |-> signing, source |-> source, destination |-> destination,
     pc |-> entry, stack |-> <<>>, result |-> "none", flow |-> <<>>]

Returned(j) == pl[j].pc = "returned"

Panicked(j) == pl[j].pc = "panicked"

Finished(j) == Returned(j) \/ Panicked(j)

\* the encrypting or decrypting layer chosen by the match on the secret and
\* the encryption type; "panic" stands for unimplemented!()
CipherLayer(kind, p) ==
    CASE p.encryption_secret.kind = "Password" ->
            IF p.encryption = "Passthrough"
            THEN Layer(kind, "Passthrough", "none")
            ELSE Layer(kind, p.encryption, p.encryption_secret.val)
      [] p.encryption_secret.kind = "Key" -> Layer("panic", "none", "none")
      [] p.encryption_secret.kind = "None" -> Layer(kind, "Passthrough", "none")

compress_dir(j) ==
    /\ pl[j].pc = "compress_dir"
    /\ IF CanCreate(pl[j].destination)
       THEN /\ fs' = (pl[j].destination :> <<>>) @@ fs
            /\ pl' = [pl EXCEPT ![j].pc = "build_encryptor"]
       ELSE /\ fs' = fs
            /\ pl' = [pl EXCEPT ![j].pc = "returned", ![j].result = "IOError"]
    /\ UNCHANGED <<extVars, dirs, codecVars, orchVars>>

build_encryptor(j) ==
    /\ pl[j].pc = "build_encryptor"
    /\ LET layer == CipherLayer("encryptor", pl[j]) IN
       IF layer.kind = "panic"
       THEN pl' = [pl EXCEPT ![j].pc = "panicked"]
       ELSE pl' = [pl EXCEPT ![j].pc = "build_compressor", ![j].stack = <<layer>>]
    /\ UNCHANGED <<extVars, fs, dirs, codecVars, orchVars>>

\* build_compressor wrapping the raw file instead of the encryptor
build_compressor_innermost(j) ==
    /\ pl[j].pc = "build_compressor"
    /\ pl' = [pl EXCEPT ![j].pc = "build_signer",
                        ![j].stack = <<Layer("compressor", pl[j].compression, "none")>> \o @]
    /\ UNCHANGED <<extVars, fs, dirs, codecVars, orchVars>>

build_compressor(j) ==
    /\ pl[j].pc = "build_compressor"
    /\ pl' = [pl EXCEPT ![j].pc = "build_signer",
                        ![j].stack = Append(@, Layer("compressor", pl[j].compression, "none"))]
    /\ UNCHANGED <<extVars, fs, dirs, codecVars, orchVars>>

build_signer(j) ==
    /\ pl[j].pc = "build_signer"
    /\ pl[j].signing = "Passthrough"
    /\ pl' = [pl EXCEPT ![j].pc = "execute_compression_pipeline",
                        ![j].stack = Append(@, Layer("signer", "Passthrough", "none"))]
    /\ UNCHANGED <<extVars, fs, dirs, codecVars, orchVars>>

execute_compression_pipeline(j) ==
    /\ pl[j].pc = "execute_compression_pipeline"
    /\ IF Exists(pl[j].source)
       THEN pl' = [pl EXCEPT ![j].pc = "compress"]
       ELSE pl' = [pl EXCEPT ![j].pc = "returned", ![j].result = "IOError"]
    /\ UNCHANGED <<extVars, fs, dirs, codecVars, orchVars>>

\* compress with a finalise step that appends a block to the destination
compress_with_trailer(j) ==
    /\ pl[j].pc = "compress"
    /\ fs' = [fs EXCEPT ![pl[j].destination] =
                WriteAt0(@, WriteThrough(pl[j].stack, ReadFile(pl[j].source)) \o <<9>>)]
    /\ pl' = [pl EXCEPT ![j].pc = "returned", ![j].result = "Ok",
                        ![j].flow = <<"source">> \o Rev(LayerKinds(pl[j].stack))
                                        \o <<"destination">>]
    /\ UNCHANGED <<extVars, dirs, codecVars, orchVars>>

\* PipelineTask::compress: copy the source into the outermost writer, then
\* finalise (the identity signer returns no block and cannot fail).
compress(j) ==
    /\ pl[j].pc = "compress"
    /\ fs' = [fs EXCEPT ![pl[j].destination] =
                WriteAt0(@, WriteThrough(pl[j].stack, ReadFile(pl[j].source)))]
    /\ pl' = [pl EXCEPT ![j].pc = "returned", ![j].result = "Ok",
                        ![j].flow = <<"source">> \o Rev(LayerKinds(pl[j].stack))
                                        \o <<"destination">>]
    /\ UNCHANGED <<extVars, dirs, codecVars, orchVars>>

\* decompress_dir creating the destination before it opens the source
decompress_dir_create_first(j) ==
    /\ pl[j].pc = "decompress_dir"
    /\ fs' = IF CanCreate(pl[j].destination) THEN (pl[j].destination :> <<>>) @@ fs ELSE fs
    /\ IF Exists(pl[j].source)
       THEN pl' = [pl EXCEPT ![j].pc = "build_dencryptor"]
       ELSE pl' = [pl EXCEPT ![j].pc = "returned", ![j].result = "IOError"]
    /\ UNCHANGED <<extVars, dirs, codecVars, orchVars>>

decompress_dir(j) ==
    /\ pl[j].pc = "decompress_dir"
    /\ IF Exists(pl[j].source)
       THEN pl' = [pl EXCEPT ![j].pc = "build_dencryptor"]
       ELSE pl' = [pl EXCEPT ![j].pc = "returned", ![j].result = "IOError"]
    /\ UNCHANGED <<extVars, fs, dirs, codecVars, orchVars>>

\* build_dencryptor always taking the passthrough arm
build_dencryptor_passthrough(j) ==
    /\ pl[j].pc = "build_dencryptor"
    /\ pl' = [pl EXCEPT ![j].pc = "build_decompressor",
                        ![j].stack = <<Layer("decryptor", "Passthrough", "none")>>]
    /\ UNCHANGED <<extVars, fs, dirs, codecVars, orchVars>>

build_dencryptor(j) ==
    /\ pl[j].pc = "build_dencryptor"
    /\ LET layer == CipherLayer("decryptor", pl[j]) IN
       IF layer.kind = "panic"
       THEN pl' = [pl EXCEPT ![j].pc = "panicked"]
       ELSE pl' = [pl EXCEPT ![j].pc = "build_decompressor", ![j].stack = <<layer>>]
    /\ UNCHANGED <<extVars, fs, dirs, codecVars, orchVars>>

build_decompressor(j) ==
    /\ pl[j].pc = "build_decompressor"
    /\ pl' = [pl EXCEPT ![j].pc = "build_verifier",
                        ![j].stack = Append(@, Layer("decompressor", pl[j].compression, "none"))]
    /\ UNCHANGED <<extVars, fs, dirs, codecVars, orchVars>>

build_verifier(j) ==
    /\ pl[j].pc = "build_verifier"
    /\ pl[j].signing = "Passthrough"
    /\ pl' = [pl EXCEPT ![j].pc = "execute_decompression_pipeline",
                        ![j].stack = Append(@, Layer("verifier", "Passthrough", "none"))]
    /\ UNCHANGED <<extVars, fs, dirs, codecVars, orchVars>>

execute_decompression_pipeline(j) ==
    /\ pl[j].pc = "execute_decompression_pipeline"
    /\ IF CanCreate(pl[j].destination)
       THEN /\ fs' = (pl[j].destination :> <<>>) @@ fs
            /\ pl' = [pl EXCEPT ![j].pc = "decompress"]
       ELSE /\ fs' = fs
            /\ pl' = [pl EXCEPT ![j].pc = "returned", ![j].result = "IOError"]
    /\ UNCHANGED <<extVars, dirs, codecVars, orchVars>>

\* PipelineTask::decompress: copy from the outermost reader into the
\* destination, then finalise; a read error of a layer ends the copy.
decompress(j) ==
    /\ pl[j].pc = "decompress"
    /\ LET res == ReadThrough(pl[j].stack, [ok |-> TRUE, data |-> ReadFile(pl[j].source)]) IN
       IF res.ok
       THEN /\ fs' = [fs EXCEPT ![pl[j].destination] = WriteAt0(@, res.data)]
            /\ pl' = [pl EXCEPT ![j].pc = "returned", ![j].result = "Ok",
                                ![j].flow = <<"source">> \o LayerKinds(pl[j].stack)
                                                \o <<"destination">>]
       ELSE /\ fs' = fs
            /\ pl' = [pl EXCEPT ![j].pc = "returned", ![j].result = "IOError"]
    /\ UNCHANGED <<extVars, dirs, codecVars, orchVars>>

----------------------------------------------------------------------------
\* One file through the compress pipeline and then, when that returned Ok,
\* its output through the decompress pipeline with the same types and secret.

PlainRel == MkPath(<<>>, <<"a">>)

ArchiveRel(enc, comp) == rewrite_ext(PlainRel, build_common_extension(enc, comp)).path

PlainFile == FPath("in", PlainRel)

ArchiveFile(enc, comp) == FPath("stage", ArchiveRel(enc, comp))

RestoredFile(enc, comp) == FPath("out", clear_ext(ArchiveRel(enc, comp)).path)

Roots == {[root |-> r, dir |-> <<>>] : r \in {"in", "stage", "out"}}

\* the bytes of a file found at the decompress destination before the run
StaleBytes == <<1, 1>>

\* Either the round trip starts from a source file (which may be missing),
\* or only the decompress pipeline runs, on an archive file found as it is.
\* A file may already be at the decompress destination.
InitPipe ==
    /\ in_path = NoPath /\ c_enc = "Passthrough" /\ c_comp = "Passthrough"
    /\ c_pc = "off" /\ encoded = Err("none") /\ decoded = Err("none")
    /\ types = NoTypes
    /\ d_op = NoOp /\ d_pc = "off" /\ input_paths = <<>> /\ jobs = <<>> /\ made = {}
    /\ links = NoLinks /\ cli = NoCli /\ builder = NoBuilder /\ task = NoTask
    /\ dirs = Roots
    /\ \E enc \in EncryptionTypes, comp \in CompressionTypes, secret \in Secrets,
          content \in Contents, present \in BOOLEAN, roundtrip \in BOOLEAN,
          stale \in BOOLEAN :
          /\ fs = (IF ~present THEN <<>>
                   ELSE IF roundtrip THEN (PlainFile :> content)
                   ELSE (ArchiveFile(enc, comp) :> content))
                  @@ (IF stale THEN (RestoredFile(enc, comp) :> StaleBytes) ELSE <<>>)
          /\ pl = <<ProcessingPipeline(enc, secret, comp, "Passthrough",
                        PlainFile, ArchiveFile(enc, comp),
                        IF roundtrip THEN "compress_dir" ELSE "unused"),
                    ProcessingPipeline(enc, secret, comp, "Passthrough",
                        ArchiveFile(enc, comp), RestoredFile(enc, comp),
                        IF roundtrip THEN "idle" ELSE "decompress_dir")>>

\* the caller runs the decompress pipeline on the compress pipeline's output
StartDecompress ==
    /\ Returned(1) /\ pl[1].result = "Ok"
    /\ pl[2].pc = "idle"
    /\ pl' = [pl EXCEPT ![2].pc = "decompress_dir"]
    /\ UNCHANGED <<extVars, fs, dirs, codecVars, orchVars>>

NextPipe ==
    \/ \E j \in DOMAIN pl : compress_dir(j)
    \/ \E j \in DOMAIN pl : build_encryptor(j)
    \/ \E j \in DOMAIN pl : build_compressor(j)
    \/ \E j \in DOMAIN pl : build_signer(j)
    \/ \E j \in DOMAIN pl : execute_compression_pipeline(j)
    \/ \E j \in DOMAIN pl : compress(j)
    \/ StartDecompress
    \/ \E j \in DOMAIN pl : decompress_dir(j)
    \/ \E j \in DOMAIN pl : build_dencryptor(j)
    \/ \E j \in DOMAIN pl : build_decompressor(j)
    \/ \E j \in DOMAIN pl : build_verifier(j)
    \/ \E j \in DOMAIN pl : execute_decompression_pipeline(j)
    \/ \E j \in DOMAIN pl : decompress(j)

SpecPipe == InitPipe /\ [][NextPipe]_vars

----------------------------------------------------------------------------
\* Directory orchestrator (src/src/lib.rs:123-325): compress_directory of an
\* input tree into a staging tree and, when that returned Ok, the caller's
\* decompress_directory of the staging tree with the same types and secret.

TreeNames == {<<"a">>, <<"b">>, <<"gz", DOT, "a">>, <<"a", DOT, "xFF">>}

TreePaths == {MkPath(d, n) : d \in DirNames, n \in TreeNames}

Trees == {t \in SUBSET TreePaths : Cardinality(t) >= 1 /\ Cardinality(t) <= MaxFiles}

ContentOf(p) ==
    CASE p.name = <<"a">> -> <<0>>
      [] p.name = <<"b">> -> <<1>>
      [] OTHER -> <<1, 0>>

\* the symbolic link of the input tree
LinkPath == FPath("in", MkPath(<<>>, <<"l">>))

\* the input tree holds at most MaxFiles entries; when there is room, one of
\* them may be a symbolic link: to a regular file of the tree, to the tree's
\* root directory, or to nothing
LinkSets(tree) ==
    {NoLinks} \cup
    (IF Cardinality(tree) >= MaxFiles THEN {}
     ELSE {(LinkPath :> SymLink("file", FPath("in", p))) : p \in tree}
            \cup {(LinkPath :> SymLink("dir", [root |-> "in", dir |-> <<>>, name |-> <<>>]))}
            \cup {(LinkPath :> SymLink("dangling", FPath("in", MkPath(<<>>, <<"gone">>))))})

OrchEncryptionTypes == {"Passthrough", "XChaCha"}

OrchCompressionTypes == {"Passthrough", "Lz4"}

DirOp(kind, input, output, enc, secret, comp) ==
    [kind |-> kind, input_folder_path |-> input, output_folder_path |-> output,
     encryption |-> enc, encryption_secret |-> secret, compression |-> comp,
     signing |-> "Passthrough"]

\* Path::parent with every ancestor, as create_dir_all makes them
Ancestors(d) == {[root |-> d.root, dir |-> SubSeq(d.dir, 1, k)] : k \in 0..Len(d.dir)}

\* WalkDir::new(root) without follow_links: every entry under the root, a
\* symbolic link as itself (not descended into)
WalkEntries(root) == {f \in DOMAIN fs \cup DOMAIN links : f.root = root}

\* ... .map(|e| e.into_path()).filter(|e| e.is_file())
WalkFiles(root) == {f \in WalkEntries(root) : is_file(f)}

\* the orders in which the walk can yield the files
Orders(S) == {seq \in [1..Cardinality(S) -> S] : \A i, k \in 1..Cardinality(S) : i # k => seq[i] # seq[k]}

\* strip_prefix(input_folder_path)
strip_prefix(f) == MkPath(f.dir, f.name)

\* the path rewrite of the direction: rewrite_ext or clear_ext
RewritePath(op, rel) ==
    IF op.kind = "compress"
    THEN rewrite_ext(rel, build_common_extension(op.encryption, op.compression))
    ELSE clear_ext(rel)

\* filter_map(... .ok()).map(|p| output_folder_path.join(p))
RECURSIVE OutputPaths(_, _)
OutputPaths(op, inputs) ==
    IF inputs = <<>> THEN <<>>
    ELSE LET r == RewritePath(op, strip_prefix(Head(inputs))) IN
         (IF r.status = "ok" THEN <<FPath(op.output_folder_path, r.path)>> ELSE <<>>)
            \o OutputPaths(op, Tail(inputs))

\* input_paths.into_iter().zip(output_paths)
Zip(a, b) ==
    [i \in 1..(IF Len(a) <= Len(b) THEN Len(a) ELSE Len(b)) |->
        [input |-> a[i], output |-> b[i]]]

Running(i) == pl[i].pc \notin {"idle", "queued", "closed", "panicked"}

\* lines 139-165 and 241-265: walk, rewrite every path, zip into jobs
plan ==
    /\ d_pc = "plan"
    /\ \E order \in Orders(WalkFiles(d_op.input_folder_path)) :
          /\ input_paths' = order
          /\ IF \E i \in 1..Len(order) : RewritePath(d_op, strip_prefix(order[i])).status = "panic"
             THEN /\ d_pc' = "panicked"
                  /\ jobs' = <<>>
             ELSE /\ d_pc' = "mkdirs"
                  /\ jobs' = Zip(order, OutputPaths(d_op, order))
    /\ pl' = [i \in 1..Len(jobs') |->
                ProcessingPipeline(d_op.encryption, d_op.encryption_secret, d_op.compression,
                    d_op.signing, jobs'[i].input, jobs'[i].output, "queued")]
    /\ made' = {}
    /\ UNCHANGED <<extVars, fs, dirs, d_op, codecVars>>

\* first fan-out: std::fs::create_dir_all(output.parent()) for one job
create_dir_all(i) ==
    /\ d_pc = "mkdirs"
    /\ i \in DOMAIN jobs /\ i \notin made
    /\ dirs' = dirs \cup Ancestors(DirOf(jobs[i].output))
    /\ made' = made \cup {i}
    /\ UNCHANGED <<extVars, fs, pl, d_op, d_pc, input_paths, jobs, codecVars>>

\* the first fan-out returning as soon as one closure has run
SomeDirCreated == made # {}

\* par_iter().for_each returns when the closure has run for every job
AllDirsCreated == made = DOMAIN jobs

dirs_joined ==
    /\ d_pc = "mkdirs"
    /\ AllDirsCreated
    /\ d_pc' = "pipelines"
    /\ UNCHANGED <<extVars, fs, dirs, pl, d_op, input_paths, jobs, made, codecVars>>

\* second fan-out: a free worker takes a job, builds its pipeline and calls
\* compress_dir / decompress_dir
take_job(i) ==
    /\ d_pc = "pipelines"
    /\ i \in DOMAIN pl /\ pl[i].pc = "queued"
    /\ Cardinality({k \in DOMAIN pl : Running(k)}) < NWorkers
    /\ pl' = [pl EXCEPT ![i].pc = IF d_op.kind = "compress" THEN "compress_dir"
                                  ELSE "decompress_dir"]
    /\ UNCHANGED <<extVars, fs, dirs, codecVars, orchVars>>

\* the closure logging an Err and going on
closure_match_log_only(i) ==
    /\ d_pc = "pipelines"
    /\ i \in DOMAIN pl /\ Returned(i)
    /\ pl' = [pl EXCEPT ![i].pc = "closed"]
    /\ UNCHANGED <<extVars, fs, dirs, codecVars, orchVars>>

\* the closure's match on the pipeline result: Ok is logged, Err panics
closure_match(i) ==
    /\ d_pc = "pipelines"
    /\ i \in DOMAIN pl /\ Returned(i)
    /\ pl' = [pl EXCEPT ![i].pc = IF pl[i].result = "Ok" THEN "closed" ELSE "panicked"]
    /\ UNCHANGED <<extVars, fs, dirs, codecVars, orchVars>>

\* into_par_iter().for_each returned: Ok(())
directory_return ==
    /\ d_pc = "pipelines"
    /\ \A i \in DOMAIN pl : pl[i].pc = "closed"
    /\ d_pc' = "returned"
    /\ UNCHANGED <<extVars, fs, dirs, pl, d_op, input_paths, jobs, made, codecVars>>

\* a panic of a job unwinds out of for_each once the running jobs have
\* stopped; jobs not yet taken may never run
directory_panic ==
    /\ d_pc = "pipelines"
    /\ \E i \in DOMAIN pl : Panicked(i)
    /\ \A k \in DOMAIN pl : ~Running(k)
    /\ d_pc' = "panicked"
    /\ UNCHANGED <<extVars, fs, dirs, pl, d_op, input_paths, jobs, made, codecVars>>

\* ---- Command::Archive / Command::Extract (src/src/bin/cli_util/mod.rs)

\* str::trim_end_matches('.')
RECURSIVE trim_end_matches(_)
trim_end_matches(s) ==
    IF s # <<>> /\ s[Len(s)] = DOT THEN trim_end_matches(SubSeq(s, 1, Len(s) - 1)) ELSE s

\* the directory the archive is made of
InputName == <<"in">>

\* Command::archive: the archive is named after the input, the common
\* extension of the two algorithms and the container tag
ArchiveName(input, enc, comp) ==
    trim_end_matches(input) \o build_common_extension(enc, comp) \o <<DOT, "zap">>

\* the values the two override flags of Extract can take (default: Passthrough)
CliEncryptionFlags == {"Passthrough", "AesGcm"}

CliCompressionFlags == {"Passthrough", "Gzip"}

\* --keypath of Extract: absent or a key file
KeyPaths == {"none", "keyfile"}

\* one arm of the match in Command::execute (Extract): a tag token assigns
\* the algorithm variable, which starts as the flag's value
ExtractClassify(tok, acc) ==
    CASE tok = <<"xcha">> -> [acc EXCEPT !.enc = "XChaCha"]
      [] tok = <<"aes">> -> [acc EXCEPT !.enc = "AesGcm"]
      [] tok = <<"cha">> -> [acc EXCEPT !.enc = "ChaCha"]
      [] tok = <<"lz4">> -> [acc EXCEPT !.comp = "Lz4"]
      [] tok = <<"gz">> -> [acc EXCEPT !.comp = "Gzip"]
      [] tok = <<"sz">> -> [acc EXCEPT !.comp = "Snappy"]
      [] OTHER -> acc

\* the for loop of Command::execute (Extract) over the reversed tokens of
\* the archive's file name
RECURSIVE ExtractScan(_, _)
ExtractScan(tokens, acc) ==
    IF tokens = <<>> THEN acc
    ELSE ExtractScan(Tail(tokens), ExtractClassify(Head(tokens), acc))

\* Command::extract: the secret follows from the algorithm and --keypath;
\* the password prompt yields the password the archive was made with
ExtractSecret(enc, keypath) ==
    CASE enc = "Passthrough" -> SecretNone
      [] enc # "Passthrough" /\ keypath = "none" -> SecretPassword("pw")
      [] OTHER -> SecretKey(keypath)

\* Extract of the archive that Archive made of the staging tree: the flags
\* and the archive's name give the algorithms, the archive is unpacked into
\* the staging directory and decompress_directory is called on it
extract ==
    /\ d_pc = "returned"
    /\ d_op.kind = "compress"
    /\ \E ef \in CliEncryptionFlags, cf \in CliCompressionFlags, keypath \in KeyPaths :
          LET name == ArchiveName(InputName, d_op.encryption, d_op.compression)
              found == ExtractScan(Rev(Split(name)), [enc |-> ef, comp |-> cf])
          IN /\ cli' = [pc |-> "extract", archive |-> name,
                        archived_encryption |-> d_op.encryption,
                        archived_secret |-> d_op.encryption_secret,
                        archived_compression |-> d_op.compression,
                        encryption_flag |-> ef, compression_flag |-> cf,
                        keypath |-> keypath,
                        encryption_algorithm |-> found.enc,
                        compression_algorithm |-> found.comp]
             /\ d_op' = DirOp("decompress", "stage", "out", found.enc,
                              ExtractSecret(found.enc, keypath), found.comp)
    /\ d_pc' = "plan"
    /\ input_paths' = <<>> /\ jobs' = <<>> /\ made' = {} /\ pl' = <<>>
    /\ UNCHANGED <<links, builder, task, fs, dirs, codecVars>>

InitOrch ==
    /\ in_path = NoPath /\ c_enc = "Passthrough" /\ c_comp = "Passthrough"
    /\ c_pc = "off" /\ encoded = Err("none") /\ decoded = Err("none")
    /\ types = NoTypes
    /\ \E tree \in Trees :
          /\ fs = [f \in {FPath("in", p) : p \in tree} |-> ContentOf(f)]
          /\ dirs = UNION {Ancestors([root |-> "in", dir |-> p.dir]) : p \in tree}
          /\ links \in LinkSets(tree)
    /\ cli = NoCli /\ builder = NoBuilder /\ task = NoTask
    /\ \E enc \in OrchEncryptionTypes, comp \in OrchCompressionTypes, secret \in Secrets :
          d_op = DirOp("compress", "in", "stage", enc, secret, comp)
    /\ d_pc = "plan"
    /\ input_paths = <<>> /\ jobs = <<>> /\ made = {} /\ pl = <<>>

NextOrch ==
    \/ plan
    \/ \E i \in DOMAIN jobs : create_dir_all(i)
    \/ dirs_joined
    \/ \E i \in DOMAIN pl : take_job(i)
    \/ \E j \in DOMAIN pl : compress_dir(j)
    \/ \E j \in DOMAIN pl : build_encryptor(j)
    \/ \E j \in DOMAIN pl : build_compressor(j)
    \/ \E j \in DOMAIN pl : build_signer(j)
    \/ \E j \in DOMAIN pl : execute_compression_pipeline(j)
    \/ \E j \in DOMAIN pl : compress(j)
    \/ \E j \in DOMAIN pl : decompress_dir(j)
    \/ \E j \in DOMAIN pl : build_dencryptor(j)
    \/ \E j \in DOMAIN pl : build_decompressor(j)
    \/ \E j \in DOMAIN pl : build_verifier(j)
    \/ \E j \in DOMAIN pl : execute_decompression_pipeline(j)
    \/ \E j \in DOMAIN pl : decompress(j)
    \/ \E i \in DOMAIN pl : closure_match(i)
    \/ directory_return
    \/ directory_panic
    \/ extract

SpecOrch == InitOrch /\ [][NextOrch]_vars

\* ---- successive runs of the command line tool.  Every run stages its files
\* in the same directory "/tmp/unpacked" (root "stage" here).

MaxRuns == 2

NoArchive == [name |-> <<>>, files |-> <<>>]

\* Command::archive: the secret follows from the algorithm and --keypath
ArchiveSecret(enc, keypath) ==
    CASE enc = "Passthrough" -> SecretNone
      [] enc # "Passthrough" /\ keypath # "none" -> SecretKey(keypath)
      [] OTHER -> SecretPassword("pw")

StagedFiles == {f \in DOMAIN fs : f.root = "stage"}

\* pack_files("/tmp/unpacked", ..): every file under the staging directory,
\* by its path relative to it
pack_files == [p \in {strip_prefix(f) : f \in StagedFiles} |-> fs[FPath("stage", p)]]

\* unpack_files(input, "/tmp/unpacked"): every file of the archive is written
\* under the staging directory; what is already there stays
unpack_files(files) ==
    [f \in {FPath("stage", p) : p \in DOMAIN files} |-> files[strip_prefix(f)]] @@ fs

\* fs::remove_dir_all("/tmp/unpacked")
remove_dir_all == [f \in DOMAIN fs \ StagedFiles |-> fs[f]]

\* Command::archive up to the call of compress_directory
archive ==
    /\ cli.pc \in {"idle", "done", "failed"}
    /\ cli.run < MaxRuns
    /\ \E enc \in OrchEncryptionTypes, comp \in OrchCompressionTypes, keypath \in KeyPaths :
          d_op' = DirOp("compress", "in", "stage", enc, ArchiveSecret(enc, keypath), comp)
    /\ cli' = [cli EXCEPT !.pc = "archive", !.run = @ + 1]
    /\ d_pc' = "plan"
    /\ input_paths' = <<>> /\ jobs' = <<>> /\ made' = {} /\ pl' = <<>>
    /\ UNCHANGED <<links, builder, task, fs, dirs, codecVars>>

\* Command::archive after compress_directory returned: the staging directory
\* is packed into the archive and then removed
archive_pack_files ==
    /\ cli.pc = "archive"
    /\ d_pc = "returned"
    /\ cli' = [cli EXCEPT !.pc = "done",
                          !.archive = [name |-> ArchiveName(InputName, d_op.encryption,
                                                            d_op.compression),
                                       files |-> pack_files]]
    /\ fs' = remove_dir_all
    /\ dirs' = {d \in dirs : d.root # "stage"}
    /\ UNCHANGED <<links, builder, task, pl, codecVars, orchVars>>

\* Command::extract up to the call of decompress_directory: the newest
\* archive is unpacked into the staging directory
extract_unpack_files ==
    /\ cli.pc \in {"done", "failed"}
    /\ cli.run < MaxRuns
    /\ cli.archive # NoArchive
    /\ \E ef \in CliEncryptionFlags, cf \in CliCompressionFlags, keypath \in KeyPaths :
          LET found == ExtractScan(Rev(Split(cli.archive.name)), [enc |-> ef, comp |-> cf])
          IN d_op' = DirOp("decompress", "stage", "out", found.enc,
                           ExtractSecret(found.enc, keypath), found.comp)
    /\ fs' = unpack_files(cli.archive.files)
    /\ dirs' = dirs \cup {[root |-> "stage", dir |-> <<>>]}
                     \cup UNION {Ancestors(DirOf(FPath("stage", p))) :
                                    p \in DOMAIN cli.archive.files}
    /\ cli' = [cli EXCEPT !.pc = "extract", !.run = @ + 1]
    /\ d_pc' = "plan"
    /\ input_paths' = <<>> /\ jobs' = <<>> /\ made' = {} /\ pl' = <<>>
    /\ UNCHANGED <<links, builder, task, codecVars>>

\* Command::extract after decompress_directory returned
extract_remove_dir_all ==
    /\ cli.pc = "extract"
    /\ d_pc = "returned"
    /\ cli' = [cli EXCEPT !.pc = "done"]
    /\ fs' = remove_dir_all
    /\ dirs' = {d \in dirs : d.root # "stage"}
    /\ UNCHANGED <<links, builder, task, pl, codecVars, orchVars>>

\* a panic inside compress_directory / decompress_directory ends the process:
\* the lines after the call do not run
process_exit ==
    /\ cli.pc \in {"archive", "extract"}
    /\ d_pc = "panicked"
    /\ cli' = [cli EXCEPT !.pc = "failed"]
    /\ UNCHANGED <<links, builder, task, pipeVars, codecVars, orchVars>>

InitRuns ==
    /\ in_path = NoPath /\ c_enc = "Passthrough" /\ c_comp = "Passthrough"
    /\ c_pc = "off" /\ encoded = Err("none") /\ decoded = Err("none")
    /\ types = NoTypes
    /\ \E tree \in Trees :
          /\ fs = [f \in {FPath("in", p) : p \in tree} |-> ContentOf(f)]
          /\ dirs = UNION {Ancestors([root |-> "in", dir |-> p.dir]) : p \in tree}
    /\ links = NoLinks
    /\ cli = [pc |-> "idle", run |-> 0, archive |-> NoArchive]
    /\ builder = NoBuilder /\ task = NoTask
    /\ d_op = DirOp("compress", "in", "stage", "Passthrough", SecretNone, "Passthrough")
    /\ d_pc = "off"
    /\ input_paths = <<>> /\ jobs = <<>> /\ made = {} /\ pl = <<>>

NextRuns ==
    \/ archive
    \/ archive_pack_files
    \/ extract_unpack_files
    \/ extract_remove_dir_all
    \/ process_exit
    \/ plan
    \/ \E i \in DOMAIN jobs : create_dir_all(i)
    \/ dirs_joined
    \/ \E i \in DOMAIN pl : take_job(i)
    \/ \E j \in DOMAIN pl : compress_dir(j)
    \/ \E j \in DOMAIN pl : build_encryptor(j)
    \/ \E j \in DOMAIN pl : build_compressor(j)
    \/ \E j \in DOMAIN pl : build_signer(j)
    \/ \E j \in DOMAIN pl : execute_compression_pipeline(j)
    \/ \E j \in DOMAIN pl : compress(j)
    \/ \E j \in DOMAIN pl : decompress_dir(j)
    \/ \E j \in DOMAIN pl : build_dencryptor(j)
    \/ \E j \in DOMAIN pl : build_decompressor(j)
    \/ \E j \in DOMAIN pl : build_verifier(j)
    \/ \E j \in DOMAIN pl : execute_decompression_pipeline(j)
    \/ \E j \in DOMAIN pl : decompress(j)
    \/ \E i \in DOMAIN pl : closure_match(i)
    \/ directory_return
    \/ directory_panic

SpecRuns == InitRuns /\ [][NextRuns]_vars

----------------------------------------------------------------------------
\* Pipeline builder (src/src/pipeline/mod.rs:23-162).  Every type parameter
\* of ProcessingPipelineBuilder is () until the field's with_* method has been
\* called; build() is defined only for the builder whose seven parameters
\* are all set.

Unset == "()"

BuilderFields ==
    {"encryption", "encryption_secret", "compression", "compression_level",
     "signing", "source", "destination"}

\* the values a caller can give to a field
FieldValues(f) ==
    CASE f = "encryption" -> {"Passthrough", "XChaCha"}
      [] f = "encryption_secret" -> {"None", "Password"}
      [] f = "compression" -> {"Passthrough", "Lz4"}
      [] f = "compression_level" -> {"fastest", "best"}
      [] f = "signing" -> {"Passthrough"}
      [] f = "source" -> {"in/a", "in/b"}
      [] f = "destination" -> {"stage/a", "stage/b"}

\* ProcessingPipelineBuilder::new
new ==
    [encryption |-> Unset, encryption_secret |-> Unset, compression |-> Unset,
     compression_level |-> Unset, signing |-> Unset, source |-> Unset,
     destination |-> Unset]

with_encryption(self, encryption) ==
    [encryption |-> encryption,
     encryption_secret |-> self.encryption_secret,
     compression |-> self.compression,
     compression_level |-> self.compression_level,
     signing |-> self.signing,
     source |-> self.source,
     destination |-> self.destination]

with_encryption_secret(self, encryption_secret) ==
    [encryption |-> self.encryption,
     encryption_secret |-> encryption_secret,
     compression |-> self.compression,
     compression_level |-> self.compression_level,
     signing |-> self.signing,
     source |-> self.source,
     destination |-> self.destination]

with_compression(self, compression) ==
    [encryption |-> self.encryption,
     encryption_secret |-> self.encryption_secret,
     compression |-> compression,
     compression_level |-> self.compression_level,
     signing |-> self.signing,
     source |-> self.source,
     destination |-> self.destination]

with_compression_level(self, compression_level) ==
    [encryption |-> self.encryption,
     encryption_secret |-> self.encryption_secret,
     compression |-> self.compression,
     compression_level |-> compression_level,
     signing |-> self.signing,
     source |-> self.source,
     destination |-> self.destination]

with_signing(self, signing) ==
    [encryption |-> self.encryption,
     encryption_secret |-> self.encryption_secret,
     compression |-> self.compression,
     compression_level |-> self.compression_level,
     signing |-> signing,
     source |-> self.source,
     destination |-> self.destination]

with_source(self, source) ==
    [encryption |-> self.encryption,
     encryption_secret |-> self.encryption_secret,
     compression |-> self.compression,
     compression_level |-> self.compression_level,
     signing |-> self.signing,
     source |-> source,
     destination |-> self.destination]

with_destination(self, destination) ==
    [encryption |-> self.encryption,
     encryption_secret |-> self.encryption_secret,
     compression |-> self.compression,
     compression_level |-> self.compression_level,
     signing |-> self.signing,
     source |-> self.source,
     destination |-> destination]

\* the with_* method of a field
With(self, f, v) ==
    CASE f = "encryption" -> with_encryption(self, v)
      [] f = "encryption_secret" -> with_encryption_secret(self, v)
      [] f = "compression" -> with_compression(self, v)
      [] f = "compression_level" -> with_compression_level(self, v)
      [] f = "signing" -> with_signing(self, v)
      [] f = "source" -> with_source(self, v)
      [] f = "destination" -> with_destination(self, v)

\* build() exists for a builder without the destination parameter set
BuildAvailableWithoutDestination(self) ==
    \A f \in BuilderFields \ {"destination"} : self[f] # Unset

\* the impl block of build(): all seven type parameters are set
BuildAvailable(self) == \A f \in BuilderFields : self[f] # Unset

\* ProcessingPipelineBuilder::build
build(self) ==
    [encryption |-> self.encryption,
     encryption_secret |-> self.encryption_secret,
     compression |-> self.compression,
     compression_level |-> self.compression_level,
     signing |-> self.signing,
     source |-> self.source,
     destination |-> self.destination]

\* number of with_* calls of one builder run
MaxCalls == 8

\* A builder run: the builder value, what the caller gave last for each
\* field, the number of calls made, and the pipeline once built.
InitBuilder ==
    /\ in_path = NoPath /\ c_enc = "Passthrough" /\ c_comp = "Passthrough"
    /\ c_pc = "off" /\ encoded = Err("none") /\ decoded = Err("none")
    /\ types = NoTypes
    /\ fs = <<>> /\ dirs = {} /\ pl = <<>>
    /\ d_op = NoOp /\ d_pc = "off" /\ input_paths = <<>> /\ jobs = <<>> /\ made = {}
    /\ links = NoLinks /\ cli = NoCli /\ task = NoTask
    /\ builder = [pc |-> "building", self |-> new,
                  given |-> [f \in BuilderFields |-> Unset],
                  calls |-> 0, pipeline |-> Unset]

\* one with_* call
builder_with ==
    /\ builder.pc = "building"
    /\ builder.calls < MaxCalls
    /\ \E f \in BuilderFields : \E v \in FieldValues(f) :
          builder' = [builder EXCEPT !.self = With(builder.self, f, v),
                                     !.given[f] = v,
                                     !.calls = @ + 1]
    /\ UNCHANGED <<links, cli, task, codecVars, pipeVars, orchVars>>

\* the terminal build() call, where the type system offers it
builder_build ==
    /\ builder.pc = "building"
    /\ BuildAvailable(builder.self)
    /\ builder' = [builder EXCEPT !.pc = "built", !.pipeline = build(builder.self)]
    /\ UNCHANGED <<links, cli, task, codecVars, pipeVars, orchVars>>

NextBuilder == builder_with \/ builder_build

SpecBuilder == InitBuilder /\ [][NextBuilder]_vars

----------------------------------------------------------------------------
\* Pipeline execution over any stream (src/src/pipeline/mod.rs:239-249,
\* 299-310, 348-375).  PipelineTask<T> is generic in its stream T: the copy
\* may fail after some bytes, and T's finalise returns no block, a block, or
\* an error.

NoBlock == [some |-> FALSE, val |-> 0]

SomeBlock(b) == [some |-> TRUE, val |-> b]

\* the results T::finalise can have: Ok(None), Ok(Some(block)), Err(e)
FinaliseOutcomes ==
    {[ok |-> TRUE, value |-> NoBlock, err |-> "none"],
     [ok |-> TRUE, value |-> SomeBlock(7), err |-> "none"],
     [ok |-> TRUE, value |-> SomeBlock(8), err |-> "none"],
     [ok |-> FALSE, value |-> NoBlock, err |-> "FinaliseError"]}

\* Result values of PipelineTask::compress / decompress and of the run
NoResult == [kind |-> "none", value |-> NoBlock, err |-> "none"]

TaskOk(v) == [kind |-> "Ok", value |-> v, err |-> "none"]

TaskErr(e) == [kind |-> "Err", value |-> NoBlock, err |-> e]

InitTask ==
    /\ in_path = NoPath /\ c_enc = "Passthrough" /\ c_comp = "Passthrough"
    /\ c_pc = "off" /\ encoded = Err("none") /\ decoded = Err("none")
    /\ types = NoTypes
    /\ fs = <<>> /\ dirs = {} /\ pl = <<>>
    /\ d_op = NoOp /\ d_pc = "off" /\ input_paths = <<>> /\ jobs = <<>> /\ made = {}
    /\ links = NoLinks /\ cli = NoCli /\ builder = NoBuilder
    /\ \E dir \in {"compress", "decompress"}, file_ok \in BOOLEAN, data \in Contents,
          fin \in FinaliseOutcomes :
          \E copy_err \in {-1} \cup 0..Len(data) :
             task = [pc |-> "execute", dir |-> dir, file_ok |-> file_ok, data |-> data,
                     copy_err |-> copy_err, fin |-> fin,
                     sink |-> <<>>, events |-> <<>>,
                     task_result |-> NoResult, run_result |-> NoResult]

\* execute_compression_pipeline / execute_decompression_pipeline: File::open
\* of the source (File::create of the destination) with `?`, then the call
\* of pipeline.compress (pipeline.decompress)
execute_pipeline_open ==
    /\ task.pc = "execute"
    /\ IF task.file_ok
       THEN task' = [task EXCEPT !.pc = "copy"]
       ELSE task' = [task EXCEPT !.pc = "returned", !.run_result = TaskErr("IOError")]
    /\ UNCHANGED <<links, cli, builder, codecVars, pipeVars, orchVars>>

\* PipelineTask::compress / decompress, first statement: copy(..)?; an error
\* after copy_err bytes returns from the function
task_copy ==
    /\ task.pc = "copy"
    /\ IF task.copy_err = -1
       THEN task' = [task EXCEPT !.pc = "finalise", !.sink = task.data,
                                 !.events = Append(@, "copy")]
       ELSE task' = [task EXCEPT !.pc = "match",
                                 !.sink = SubSeq(task.data, 1, task.copy_err),
                                 !.task_result = TaskErr("IOError")]
    /\ UNCHANGED <<links, cli, builder, codecVars, pipeVars, orchVars>>

\* PipelineTask::compress / decompress, second statement:
\* Ok(self.inner.finalise()?)
task_finalise ==
    /\ task.pc = "finalise"
    /\ task' = [task EXCEPT !.pc = "match",
                            !.events = Append(@, "finalise"),
                            !.task_result = IF task.fin.ok THEN TaskOk(task.fin.value)
                                            ELSE TaskErr(task.fin.err)]
    /\ UNCHANGED <<links, cli, builder, codecVars, pipeVars, orchVars>>

\* the match of execute_*_pipeline: Ok(_) => Ok(()), Err(e) => Err(e); this
\* is also what compress_dir / decompress_dir return
execute_pipeline_match ==
    /\ task.pc = "match"
    /\ task' = [task EXCEPT !.pc = "returned",
                            !.run_result = IF task.task_result.kind = "Ok" THEN TaskOk(NoBlock)
                                           ELSE TaskErr(task.task_result.err)]
    /\ UNCHANGED <<links, cli, builder, codecVars, pipeVars, orchVars>>

NextTask ==
    \/ execute_pipeline_open
    \/ task_copy
    \/ task_finalise
    \/ execute_pipeline_match

SpecTask == InitTask /\ [][NextTask]_vars

----------------------------------------------------------------------------
\* Properties of the extension codec

Utf8Input == IsUtf8(in_path.name)

HasTagToken(name) == \E i \in 1..Len(Split(name)) : Split(name)[i] \in KnownTags

\* the variant whose encode tag is the token
EncOfTag(tok) == CHOOSE e \in EncryptionTypes : EncTag(e) = <<DOT>> \o tok

CompOfTag(tok) == CHOOSE c \in CompressionTypes : CompTag(c) = <<DOT>> \o tok

\* number of known tags at the end of a token sequence
RECURSIVE TrailingTags(_)
TrailingTags(toks) ==
    IF toks # <<>> /\ toks[Len(toks)] \in KnownTags
    THEN 1 + TrailingTags(SubSeq(toks, 1, Len(toks) - 1))
    ELSE 0

\* every dot-separated token of the input name is a non-empty UTF-8 string
PlainTokens ==
    /\ Utf8Input
    /\ \A i \in 1..Len(Split(in_path.name)) : Split(in_path.name)[i] # <<>>

\* the last token of the input name is not a tag
PlainLastToken == Split(in_path.name)[Len(Split(in_path.name))] \notin KnownTags

\* C2: encode then decode returns the path and the algorithm pair it started
\* from, for every relative path that has an extension (stated here for the
\* paths whose name is made of non-empty UTF-8 tokens and does not end in a
\* tag).
C2_EncodeDecodeInverse ==
    (c_pc = "decoded" /\ PlainTokens /\ PlainLastToken /\ PathExtension(in_path).some)
        => /\ decoded.status = "ok"
           /\ decoded.path = in_path
           /\ types.enc = c_enc
           /\ types.comp = c_comp

\* C3: decode classifies only the trailing run of tag tokens: the tokens
\* before the last unrecognized token stay in the reconstructed name and
\* select no algorithm (stated here for names made of non-empty UTF-8
\* tokens).
C3_OnlyTrailingTokens ==
    (c_pc = "scanned" /\ PlainTokens)
        => LET toks == Split(in_path.name)
               k == TrailingTags(toks)
               head == SubSeq(toks, 1, Len(toks) - k)
               tail == SubSeq(toks, Len(toks) - k + 1, Len(toks))
           IN /\ decoded.status = "ok"
              /\ decoded.path = MkPath(in_path.dir, JoinDot(head))
              /\ types = ScanTypes(Rev(tail), [NoTypes EXCEPT !.status = "ok"])

\* the file name is a tag-free base followed by one encryption tag and one
\* compression tag, in either order
TwoTagSuffix ==
    LET toks == Split(in_path.name)
        n == Len(toks)
    IN /\ n >= 3
       /\ \A i \in 1..(n - 2) : toks[i] \notin KnownTags
       /\ \/ toks[n - 1][1] \in EncTagSyms /\ toks[n][1] \in CompTagSyms
          \/ toks[n - 1][1] \in CompTagSyms /\ toks[n][1] \in EncTagSyms

\* C4: a tag-free base name followed by one encryption tag and one
\* compression tag, in either order, decodes to those two variants and the
\* unchanged base name; and the tags encode emits for (E, C) after a tag-free
\* name decode to (E, C).
C4_OrderInsensitive ==
    /\ (c_pc = "scanned" /\ Utf8Input /\ Len(Split(in_path.name)) >= 3
            /\ Split(in_path.name)[Len(Split(in_path.name))] \in KnownTags
            /\ Split(in_path.name)[Len(Split(in_path.name)) - 1] \in KnownTags
            /\ TwoTagSuffix)
        => LET toks == Split(in_path.name)
               n == Len(toks)
               et == IF toks[n][1] \in EncTagSyms THEN toks[n] ELSE toks[n - 1]
               ct == IF toks[n][1] \in CompTagSyms THEN toks[n] ELSE toks[n - 1]
           IN /\ decoded.status = "ok"
              /\ decoded.path = MkPath(in_path.dir, JoinDot(SubSeq(toks, 1, n - 2)))
              /\ types.status = "ok"
              /\ types.enc = EncOfTag(et)
              /\ types.comp = CompOfTag(ct)
    /\ (c_pc = "decoded" /\ Utf8Input /\ ~HasTagToken(in_path.name))
        => /\ types.status = "ok"
           /\ types.enc = c_enc
           /\ types.comp = c_comp

C4_Witness ==
    /\ c_pc = "scanned"
    /\ in_path.name = <<"a", DOT, "lz4", DOT, "xcha">>
    /\ decoded.path.name = <<"a">>
    /\ types.enc = "XChaCha"
    /\ types.comp = "Lz4"

\* C5: the encoded name is the input name followed by the encryption tag (if
\* E is not the identity) and the compression tag (if C is not the identity);
\* with both identity variants the path is unchanged.
C5_EncodeShape ==
    (c_pc = "encoded" /\ encoded.status = "ok")
        => encoded.path = MkPath(in_path.dir, in_path.name \o EncTag(c_enc) \o CompTag(c_comp))

\* the input name is one plain token: it has no extension and is not a tag
ExtensionLessInput ==
    /\ PlainTokens
    /\ ~PathExtension(in_path).some
    /\ ~HasTagToken(in_path.name)

----------------------------------------------------------------------------
\* Properties of the processing pipeline (SpecPipe)

RoundTrip == pl[1].pc # "unused"

Config == pl[1]

\* C1: with a secret the pipeline supports (None or a password) and the
\* source present, the compress pipeline returns Ok; and whenever the
\* decompress pipeline has then run on its output with the same types and
\* secret, it returned Ok and the restored file holds the source's bytes.
C1_RoundTrip ==
    /\ (RoundTrip /\ Finished(1) /\ Exists(PlainFile) /\ Config.encryption_secret.kind # "Key")
        => (Returned(1) /\ pl[1].result = "Ok")
    /\ (RoundTrip /\ Finished(2))
        => /\ Returned(2) /\ pl[2].result = "Ok"
           /\ Exists(pl[2].destination)
           /\ fs[pl[2].destination] = fs[PlainFile]

C1_Witness ==
    /\ RoundTrip /\ Returned(2) /\ pl[2].result = "Ok"
    /\ Config.encryption = "XChaCha" /\ Config.compression = "Gzip"
    /\ Config.encryption_secret.kind = "Password"
    /\ fs[PlainFile] = <<1, 0>>
    /\ fs[pl[2].destination] = <<1, 0>>
    /\ fs[pl[1].destination] # <<1, 0>>

\* the bytes each layer role emits for the configured variants
SignedBytes(p, data) == data

CompressedBytes(p, data) ==
    IF p.compression = "Passthrough" THEN data ELSE Compress(p.compression, data)

EncryptedBytes(p, data) ==
    IF p.encryption = "Passthrough" \/ p.encryption_secret.kind # "Password" THEN data
    ELSE Encrypt(p.encryption, p.encryption_secret.val, data)

\* C6: a compress run passes the source bytes through signer, compressor and
\* encryptor, in that order, into the destination; a decompress run passes
\* them through decryptor, decompressor and verifier, the reverse nesting.
C6_LayerOrder ==
    /\ (RoundTrip /\ Returned(1) /\ pl[1].result = "Ok")
        => /\ pl[1].flow = <<"source", "signer", "compressor", "encryptor", "destination">>
           /\ fs[pl[1].destination] =
                EncryptedBytes(Config, CompressedBytes(Config, SignedBytes(Config, fs[PlainFile])))
    /\ (Returned(2) /\ pl[2].result = "Ok")
        => /\ pl[2].flow = <<"source", "decryptor", "decompressor", "verifier", "destination">>
           /\ fs[pl[2].source] =
                EncryptedBytes(Config, CompressedBytes(Config, SignedBytes(Config, fs[pl[2].destination])))

C6_Witness ==
    /\ RoundTrip /\ Returned(2) /\ pl[2].result = "Ok"
    /\ Config.encryption = "AesGcm" /\ Config.compression = "Lz4"
    /\ Config.encryption_secret.kind = "Password"
    /\ Len(fs[PlainFile]) = 2
    /\ pl[1].flow = <<"source", "signer", "compressor", "encryptor", "destination">>
    /\ pl[2].flow = <<"source", "decryptor", "decompressor", "verifier", "destination">>

\* C10: with a key-file secret and a cipher that needs a password-derived
\* key, a pipeline run whose file was opened or created ends by returning an
\* initialization error and in no other way.
C10_KeySecretIsInitError ==
    \A j \in DOMAIN pl :
        (/\ Finished(j) /\ pl[j].result # "IOError"
         /\ pl[j].encryption_secret.kind = "Key" /\ pl[j].encryption # "Passthrough")
            => (Returned(j) /\ pl[j].result = "InitError")

\* C11: when the compress pipeline ends because its secret is a key file, no
\* file exists at the destination path (the destination did not exist before
\* the run).
C11_NoPartialOutput ==
    (RoundTrip /\ Finished(1) /\ Config.encryption_secret.kind = "Key")
        => ~Exists(pl[1].destination)

\* C16: with encryption, compression and signing all Passthrough the compress
\* pipeline returns Ok for a present source (secret None or a password) and
\* the destination then holds exactly the source's bytes, nothing added.
C16_IdentityNoOp ==
    (/\ RoundTrip /\ Finished(1)
     /\ Config.encryption = "Passthrough" /\ Config.compression = "Passthrough"
     /\ Config.signing = "Passthrough"
     /\ Config.encryption_secret.kind # "Key"
     /\ Exists(PlainFile))
        => /\ Returned(1) /\ pl[1].result = "Ok"
           /\ Exists(pl[1].destination)
           /\ fs[pl[1].destination] = fs[PlainFile]

C16_Witness ==
    /\ RoundTrip /\ Returned(1) /\ pl[1].result = "Ok"
    /\ Config.encryption = "Passthrough" /\ Config.compression = "Passthrough"
    /\ Config.signing = "Passthrough"
    /\ fs[PlainFile] = <<1, 0>>
    /\ fs[pl[1].destination] = <<1, 0>>

C16_WitnessEmptyFile ==
    /\ RoundTrip /\ Returned(1) /\ pl[1].result = "Ok"
    /\ Config.encryption = "Passthrough" /\ Config.compression = "Passthrough"
    /\ fs[PlainFile] = <<>>
    /\ fs[pl[1].destination] = <<>>

\* C17: with EncryptionType Passthrough the construction of the encrypting
\* or decrypting layer succeeds whatever the secret is: no run with that type
\* ends inside build_encryptor / build_dencryptor.
C17_IdentityEncryptionCannotFail ==
    \A j \in DOMAIN pl : pl[j].encryption = "Passthrough" => ~Panicked(j)

\* C22: a compress run with a non-identity EncryptionType that returned Ok
\* wrote its bytes through that cipher's encryptor, whatever the secret is
\* (None in particular), never through the passthrough encryptor.
C22_EncryptionMatchesType ==
    (RoundTrip /\ Returned(1) /\ pl[1].result = "Ok" /\ Config.encryption # "Passthrough")
        => /\ pl[1].stack[1].kind = "encryptor"
           /\ pl[1].stack[1].alg = Config.encryption
           /\ fs[pl[1].destination] # CompressedBytes(Config, fs[PlainFile])

\* what is at the destination path of a pipeline
DestinationEntry(j) ==
    IF pl[j].destination \in DOMAIN fs THEN <<"file", fs[pl[j].destination]>>
    ELSE <<"absent">>

\* the positions of a decompress run up to the construction of the verifier
DecompressConstruction ==
    {"decompress_dir", "build_dencryptor", "build_decompressor", "build_verifier"}

\* C23: opening the source and constructing the decryptor, the decompressor
\* and the verifier of a decompress run, whether they succeed or fail, leave
\* what is at the destination path as it was: the destination is created or
\* truncated only after them.
C23_DestinationCreatedLast ==
    [][\A j \in DOMAIN pl :
          pl[j].pc \in DecompressConstruction
              => DestinationEntry(j)' = DestinationEntry(j)]_vars

C23_Witness ==
    /\ ~RoundTrip
    /\ Panicked(2)
    /\ pl[2].stack = <<>>
    /\ pl[2].destination \in DOMAIN fs
    /\ fs[pl[2].destination] = StaleBytes

C23_WitnessSourceMissing ==
    /\ ~RoundTrip
    /\ Returned(2) /\ pl[2].result = "IOError"
    /\ ~Exists(pl[2].source)
    /\ pl[2].destination \in DOMAIN fs
    /\ fs[pl[2].destination] = StaleBytes

----------------------------------------------------------------------------
\* Properties of the directory orchestrator (SpecOrch)

Started(i) == pl[i].pc \notin {"idle", "queued", "unused"}

\* C7: when any per-file pipeline has started, create_dir_all has completed
\* for every job and every job's destination parent directory exists.
C7_DirsBeforePipelines ==
    (d_pc # "off" /\ \E i \in DOMAIN pl : Started(i))
        => \A k \in DOMAIN jobs : k \in made /\ DirOf(jobs[k].output) \in dirs

C7_Witness ==
    /\ d_pc = "pipelines"
    /\ Len(jobs) = 2
    /\ DirOf(jobs[1].output) # DirOf(jobs[2].output)
    /\ Started(1) /\ Started(2) /\ Running(1) /\ Running(2)

\* the bytes one job's pipeline writes when it succeeds
JobOutput(job) ==
    IF d_op.kind = "compress"
    THEN EncryptedBytes(d_op, CompressedBytes(d_op, ReadFile(job.input)))
    ELSE ReadThrough(<<CipherLayer("decryptor", d_op),
                       Layer("decompressor", d_op.compression, "none"),
                       Layer("verifier", "Passthrough", "none")>>,
                     [ok |-> TRUE, data |-> ReadFile(job.input)]).data

\* the output tree after the jobs have run one after the other, in job order
RECURSIVE SequentialRun(_, _)
SequentialRun(f, k) ==
    IF k > Len(jobs) THEN f
    ELSE SequentialRun((jobs[k].output :> JobOutput(jobs[k])) @@ f, k + 1)

OutputTree(f) == [x \in {y \in DOMAIN f : y.root = d_op.output_folder_path} |-> f[x]]

\* C8: a directory operation that returned Ok leaves the output files, with
\* the contents, that running its jobs strictly one after the other leaves.
C8_OrderIndependent ==
    d_pc = "returned" => OutputTree(fs) = SequentialRun(<<>>, 1)

\* C9: no two jobs of one directory operation have the same output path.
C9_OutputsDisjoint ==
    \A i, k \in DOMAIN jobs : i # k => jobs[i].output # jobs[k].output

\* C12: a directory operation returns Ok(()) only when every job's pipeline
\* has returned Ok; once a pipeline has returned an error or panicked the
\* operation never returns Ok(()).
C12_FatalAbort ==
    /\ d_pc = "returned"
        => /\ Len(pl) = Len(jobs)
           /\ \A i \in DOMAIN pl : pl[i].pc = "closed" /\ pl[i].result = "Ok"
    /\ (d_pc \in {"pipelines", "returned", "panicked"}
            /\ \E i \in DOMAIN pl : Finished(i) /\ pl[i].result # "Ok")
        => d_pc # "returned"

C12_Witness ==
    /\ d_pc = "panicked"
    /\ Len(jobs) = 2
    /\ \E i \in DOMAIN pl : Panicked(i) /\ pl[i].result = "IOError"

\* the archive was made as the command line makes it: no secret with the
\* identity encryption, a password otherwise
CliArchive ==
    cli.archived_secret.kind =
        (IF cli.archived_encryption = "Passthrough" THEN "None" ELSE "Password")

\* Extract was run without override flags and without --keypath
NoOverride ==
    /\ cli.encryption_flag = "Passthrough"
    /\ cli.compression_flag = "Passthrough"
    /\ cli.keypath = "none"

\* every file name of the input tree is valid UTF-8
Utf8Tree == \A f \in WalkFiles("in") : IsUtf8(f.name)

\* C13: extracting an archived tree without override flags runs
\* decompress_directory with the (E, C) the tree was compressed with, the
\* operation returns Ok, and every input file is then found under its
\* original relative path with its original bytes (stated here for trees of
\* UTF-8 names).
C13_AutoDetect ==
    (cli.pc = "extract" /\ NoOverride /\ CliArchive /\ Utf8Tree)
        => /\ d_op.encryption = cli.archived_encryption
           /\ d_op.compression = cli.archived_compression
           /\ d_pc \in {"returned", "panicked"}
                => /\ d_pc = "returned"
                   /\ \A f \in WalkFiles("in") :
                         /\ FPath("out", strip_prefix(f)) \in DOMAIN fs
                         /\ fs[FPath("out", strip_prefix(f))] = ReadFile(f)

HasTagOf(name, syms) ==
    \E i \in 1..Len(Split(name)) : Split(name)[i] # <<>> /\ Split(name)[i][1] \in syms

\* C14: when Extract is given an override flag and the archive's name has a
\* tag of the same family, decompress_directory runs with the flag's
\* algorithm.
C14_OverridePrecedence ==
    (cli.pc = "extract" /\ CliArchive /\ Utf8Tree)
        => /\ (cli.encryption_flag # "Passthrough" /\ HasTagOf(cli.archive, EncTagSyms))
                => d_op.encryption = cli.encryption_flag
           /\ (cli.compression_flag # "Passthrough" /\ HasTagOf(cli.archive, CompTagSyms))
                => d_op.compression = cli.compression_flag

\* C18: no symbolic link becomes the input of a job.
C18_NoSymlinkJobs ==
    \A i \in DOMAIN jobs : jobs[i].input \notin DOMAIN links

\* C21: the job list has one job per enumerated input file, in walk order,
\* and a job's output path is the rewrite of that job's own input path under
\* the output root, also when the rewrite fails for some file.
C21_JobListExact ==
    d_pc \in {"mkdirs", "pipelines", "returned"}
        => /\ Len(jobs) = Len(input_paths)
           /\ \A i \in DOMAIN jobs :
                 /\ jobs[i].input = input_paths[i]
                 /\ LET r == RewritePath(d_op, strip_prefix(jobs[i].input)) IN
                    r.status = "ok"
                        => jobs[i].output = FPath(d_op.output_folder_path, r.path)

\* C24: whatever runs came before, an archive run packs exactly the output
\* files of its own jobs, and an extract run decompresses exactly the files of
\* its own archive: nothing staged by an earlier run takes part.
C24_StagingIsolation ==
    /\ (cli.pc = "archive" /\ d_pc = "returned")
           => DOMAIN pack_files = {strip_prefix(jobs[i].output) : i \in DOMAIN jobs}
    /\ (cli.pc = "extract" /\ d_pc \in {"mkdirs", "pipelines", "returned"})
           => {strip_prefix(input_paths[i]) : i \in DOMAIN input_paths}
                 = DOMAIN cli.archive.files

----------------------------------------------------------------------------
\* Properties of the pipeline builder (SpecBuilder)

\* C15: build() is offered only when every one of the seven fields has been
\* given, whatever the order of the with_* calls, and the pipeline it returns
\* holds for each field the value given last.
C15_BuilderPrecondition ==
    /\ (builder.pc = "building" /\ BuildAvailable(builder.self))
        => \A f \in BuilderFields : builder.given[f] # Unset
    /\ builder.pc = "built"
        => \A f \in BuilderFields :
              /\ builder.given[f] # Unset
              /\ builder.pipeline[f] = builder.given[f]

C15_Witness ==
    /\ builder.pc = "built"
    /\ builder.calls = 8
    /\ builder.pipeline.encryption = "XChaCha"
    /\ builder.pipeline.destination = "stage/b"

----------------------------------------------------------------------------
\* Properties of pipeline execution (SpecTask)

\* finalise is called once, after the copy has transferred every byte
FinaliseAfterCopy ==
    (\E i \in DOMAIN task.events : task.events[i] = "finalise")
        => (task.events = <<"copy", "finalise">> /\ task.sink = task.data)

\* a failed copy ends the run with the I/O error, finalise not called
CopyErrorReturned ==
    (task.pc = "returned" /\ task.file_ok /\ task.copy_err # -1)
        => /\ task.events = <<>>
           /\ task.run_result = TaskErr("IOError")

\* an error of finalise is the run's error
FinaliseErrorReturned ==
    (task.pc = "returned" /\ task.file_ok /\ task.copy_err = -1 /\ ~task.fin.ok)
        => task.run_result = TaskErr(task.fin.err)

\* the value finalise returned is the value of the run
FinaliseValueSurfaced ==
    (task.pc = "returned" /\ task.file_ok /\ task.copy_err = -1 /\ task.fin.ok)
        => task.run_result = TaskOk(task.fin.value)

\* C20: finalise is called only after all bytes have been copied; a failed
\* copy returns the I/O error without calling finalise; an error of finalise
\* is returned as the run's error; and the value finalise returns is the
\* output value of the pipeline run.
C20_CopyThenFinalize ==
    /\ task.pc # "off"
        => /\ FinaliseAfterCopy
           /\ CopyErrorReturned
           /\ FinaliseErrorReturned
           /\ FinaliseValueSurfaced

\* the first three parts of C20 together
C20_OrderAndErrors ==
    task.pc # "off" => (FinaliseAfterCopy /\ CopyErrorReturned /\ FinaliseErrorReturned)

====